---- MODULE Spec2Model ----
(***************************************************************************)
(* A model of bot.py: the polling loop, the decision cycle it runs         *)
(* (decision_engine) and the detectors and scoring rule the cycle uses.    *)
(*                                                                         *)
(* Prices are integers (ticks); volumes are integers.  The thresholds of   *)
(* the source (0.3, 0.002) are compared exactly, by cross-multiplying.     *)
(* The timestamp of the report (datetime.now) is not modelled.             *)
(***************************************************************************)
EXTENDS Integers, Sequences, FiniteSets, TLC

VARIABLES
    pc,           \* position of the single thread in the loop / the cycle
    df,           \* local df of decision_engine: the fetched frame, or None
    candle,       \* local candle
    sr_zone,      \* local sr_zone
    option_bias,  \* local option_bias
    vol_trend,    \* local vol_trend
    call_score,   \* local call_score
    put_score,    \* local put_score
    signal,       \* local signal
    msg,          \* local msg
    raised,       \* the exception propagating out of decision_engine, or None
    log,          \* what this cycle printed (stdout), oldest first
    outbox,       \* the payloads this cycle handed to requests.post
    ran,          \* the steps of decision_engine this cycle entered, in order
    fetched,      \* number of rows the provider returned this cycle, or None
    chain_error,  \* class of the exception raised inside get_option_chain_bias's
                  \* try block this cycle, or None
    posted,       \* how requests.post ended this cycle, or None
    timer,        \* seconds the running time.sleep call waits; 0 when not asleep
    helper_trend  \* result of interpret_volume_trend (never called by the loop)

vars == <<pc, df, candle, sr_zone, option_bias, vol_trend, call_score, put_score,
          signal, msg, raised, log, outbox, ran, fetched, chain_error, posted, timer,
          helper_trend>>

locals == <<df, candle, sr_zone, option_bias, vol_trend, call_score, put_score,
            signal, msg>>

None == "none"            \* an unset string-valued local
NoRec == [none |-> TRUE]  \* an unset record-valued local (df, msg), no exception
NoInt == 0 - 1            \* an unset integer-valued local

-----------------------------------------------------------------------------
(* Bounds of the model. *)

MaxVol == 2          \* volumes range over 1..MaxVol
MaxLen == 3          \* the provider returns 0..MaxLen rows
MaxStrikes == 2      \* rows of an option-chain response
MaxOI == 1           \* open interest of one side of a strike, 0..MaxOI
MaxScore == 4        \* scores drawn for the decision rule, 0..MaxScore

(* Program constants. *)
MinBars == 3         \* len(df) < 3
SleepSeconds == 300  \* time.sleep(300)

(* Prices, in ticks.  Around 1000 one tick is 0.1 %, so that one tick is   *)
(* inside the 0.2 % zone threshold and two ticks are on or outside it.     *)
Prices == {999, 1000, 1001, 1002, 1020}
LoopPrices == {999, 1000, 1001, 1002}
Volumes == 1..MaxVol

Abs(x) == IF x < 0 THEN -x ELSE x

(* An OHLCV bar as the provider delivers it: low <= open, close <= high. *)
BarsOver(P) ==
    { b \in [Open : P, High : P, Low : P, Close : P, Volume : Volumes] :
        /\ b.Low <= b.Open /\ b.Low <= b.Close
        /\ b.High >= b.Open /\ b.High >= b.Close }

(* A frame: its number of rows and its last two rows (iloc[-1], iloc[-2]);  *)
(* no code reads any other row's OHLCV.  indicators: the EMA/RSI/Vol_MA5    *)
(* columns have been appended.                                             *)
Frame(n, L, P) == [len |-> n, latest |-> L, prev |-> P, indicators |-> FALSE]

\* Frames of at least the two rows iloc[-1] and iloc[-2] address.
FramesOver(P) == { Frame(n, L, Pv) : n \in 2..MaxLen, L \in BarsOver(P), Pv \in BarsOver(P) }

-----------------------------------------------------------------------------
(* Detectors. *)

\* float(x): every integer the model holds is below 2^53, where float64 is exact.
ToFloat(x) == x

BullishCond(L, P) ==
    /\ L.Close > L.Open /\ P.Close < P.Open
    /\ L.Open < P.Close /\ L.Close > P.Open

BearishCond(L, P) ==
    /\ L.Close < L.Open /\ P.Close > P.Open
    /\ L.Open > P.Close /\ L.Close < P.Open

\* body < wick * 0.3
DojiCond(L) == 10 * Abs(L.Close - L.Open) < 3 * (L.High - L.Low)

detect_candle_noprio(d) ==
    LET L == d.latest  P == d.prev IN
    IF DojiCond(L) THEN "Doji"
    ELSE IF BullishCond(L, P) THEN "Bullish Engulfing"
    ELSE IF BearishCond(L, P) THEN "Bearish Engulfing"
    ELSE "No Pattern"

detect_candle(d) ==
    LET L == d.latest  P == d.prev IN
    IF BullishCond(L, P) THEN "Bullish Engulfing"
    ELSE IF BearishCond(L, P) THEN "Bearish Engulfing"
    ELSE IF DojiCond(L) THEN "Doji"
    ELSE "No Pattern"

interpret_volume_trend_geq(d) ==
    LET L == d.latest  P == d.prev IN
    IF L.Close > P.Close /\ L.Volume >= P.Volume THEN "Strong Uptrend"
    ELSE IF L.Close > P.Close /\ L.Volume < P.Volume THEN "Weak Uptrend"
    ELSE IF L.Close < P.Close /\ L.Volume > P.Volume THEN "Strong Downtrend"
    ELSE IF L.Close < P.Close /\ L.Volume < P.Volume THEN "Weak Downtrend"
    ELSE "Neutral"

interpret_volume_trend(d) ==
    LET L == d.latest  P == d.prev IN
    IF L.Close > P.Close /\ L.Volume > P.Volume THEN "Strong Uptrend"
    ELSE IF L.Close > P.Close /\ L.Volume < P.Volume THEN "Weak Uptrend"
    ELSE IF L.Close < P.Close /\ L.Volume > P.Volume THEN "Strong Downtrend"
    ELSE IF L.Close < P.Close /\ L.Volume < P.Volume THEN "Weak Downtrend"
    ELSE "Neutral"

\* abs(close - level) / close < 0.002, for close > 0
NearLevel(close, level) == 1000 * Abs(close - level) < 2 * close

SupportCond(d) == NearLevel(d.latest.Close, d.prev.Low)
ResistanceCond(d) == NearLevel(d.latest.Close, d.prev.High)

check_support_resistance_swapped(d) ==
    IF ResistanceCond(d) THEN "Near Resistance"
    ELSE IF SupportCond(d) THEN "Near Support"
    ELSE "Middle Zone"

check_support_resistance(d) ==
    IF SupportCond(d) THEN "Near Support"
    ELSE IF ResistanceCond(d) THEN "Near Resistance"
    ELSE "Middle Zone"

\* decision_engine, lines 123-126 and 135-145
inline_volume_trend(d) ==
    LET close == ToFloat(d.latest.Close)
        prev_close == ToFloat(d.prev.Close)
        volume == ToFloat(d.latest.Volume)
        prev_volume == ToFloat(d.prev.Volume)
    IN  IF close > prev_close /\ volume > prev_volume THEN "Strong Uptrend"
        ELSE IF close > prev_close /\ volume < prev_volume THEN "Weak Uptrend"
        ELSE IF close < prev_close /\ volume > prev_volume THEN "Strong Downtrend"
        ELSE IF close < prev_close /\ volume < prev_volume THEN "Weak Downtrend"
        ELSE "Neutral"

CandleLabels == {"Bullish Engulfing", "Bearish Engulfing", "Doji", "No Pattern"}
VolLabels == {"Strong Uptrend", "Weak Uptrend", "Strong Downtrend", "Weak Downtrend", "Neutral"}
ZoneLabels == {"Near Support", "Near Resistance", "Middle Zone"}
BiasLabels == {"CALL Bias", "PUT Bias", "Neutral"}

-----------------------------------------------------------------------------
(* Option-chain bias. *)

NoSide == [absent |-> TRUE]
ChgValues == {0, 1}

\* One side (CE or PE) of a strike row: absent, or its open interest and change.
Sides == {NoSide} \cup [openInterest : 0..MaxOI, changeinOpenInterest : ChgValues]
Strikes == [CE : Sides, PE : Sides]

RowSeqs == UNION { [1..n -> Strikes] : n \in 0..MaxStrikes }

\* What session.get / res.json deliver: a failure, or the rows of records.data.
ChainResponses ==
    { [kind |-> k, rows |-> << >>] : k \in {"network_error", "malformed_json", "missing_keys"} }
    \cup { [kind |-> "data", rows |-> r] : r \in RowSeqs }

\* [d for d in rows if side in d and d[side].get('openInterest', 0)]
SideRows(rows, side) ==
    SelectSeq(rows, LAMBDA d : d[side] # NoSide /\ d[side].openInterest # 0)

\* sorted(rows, key=openInterest, reverse=True)[0]: the first row of maximal
\* open interest (the sort is stable); rows is not empty.
TopRow(rows, side) ==
    LET best == CHOOSE i \in 1..Len(rows) :
                  /\ \A j \in 1..Len(rows) : rows[j][side].openInterest <= rows[i][side].openInterest
                  /\ \A j \in 1..(i - 1) : rows[j][side].openInterest < rows[i][side].openInterest
    IN  rows[best]

Returned(label) == [raises |-> None, label |-> label]
Raising(cls) == [raises |-> cls, label |-> None]

\* The body of the try block of get_option_chain_bias, lines 88-109.
ChainTry(resp) ==
    IF resp.kind = "network_error" THEN Raising("ConnectionError")
    ELSE IF resp.kind = "malformed_json" THEN Raising("JSONDecodeError")
    ELSE IF resp.kind = "missing_keys" THEN Raising("KeyError")
    ELSE LET ce_data == SideRows(resp.rows, "CE")
             pe_data == SideRows(resp.rows, "PE")
         IN  IF Len(ce_data) = 0 \/ Len(pe_data) = 0 THEN Raising("IndexError")
             ELSE LET ce_change == TopRow(ce_data, "CE").CE.changeinOpenInterest
                      pe_change == TopRow(pe_data, "PE").PE.changeinOpenInterest
                  IN  IF pe_change > ce_change THEN Returned("CALL Bias")
                      ELSE IF ce_change > pe_change THEN Returned("PUT Bias")
                      ELSE Returned("Neutral")

\* Classes derived from Exception; every exception the model raises is one.
ExceptionClasses == {"ValueError", "KeyError", "IndexError", "JSONDecodeError", "ConnectionError"}

OptionChainCatches_none(cls) == FALSE

\* except Exception, line 110
OptionChainCatches(cls) == cls \in ExceptionClasses

\* get_option_chain_bias: what it returns or lets escape; tried is the class
\* of the exception its try block raised, or None.
get_option_chain_bias(resp) ==
    LET r == ChainTry(resp) IN
    IF r.raises = None THEN [raises |-> None, label |-> r.label, tried |-> None]
    ELSE IF OptionChainCatches(r.raises)
         THEN [raises |-> None, label |-> "Neutral", tried |-> r.raises]
         ELSE [raises |-> r.raises, label |-> None, tried |-> r.raises]

BiasOutcomes == { get_option_chain_bias(resp) : resp \in ChainResponses }

-----------------------------------------------------------------------------
(* Scoring and decision rule. *)

Pt(cond) == IF cond THEN 1 ELSE 0

ScoreCall_loose(v, c, z, o) ==
    Pt(v \in {"Strong Uptrend", "Weak Uptrend"}) + Pt(c = "Bullish Engulfing")
    + Pt(z = "Near Support") + Pt(o = "CALL Bias")

\* lines 148-158, the call side
ScoreCall(v, c, z, o) ==
    Pt(v = "Strong Uptrend") + Pt(c = "Bullish Engulfing")
    + Pt(z = "Near Support") + Pt(o = "CALL Bias")

\* lines 148-158, the put side
ScorePut(v, c, z, o) ==
    Pt(v = "Strong Downtrend") + Pt(c = "Bearish Engulfing")
    + Pt(z = "Near Resistance") + Pt(o = "PUT Bias")

Decide_tiecall(cs, ps) ==
    IF cs >= 2 /\ cs >= ps THEN "BUY CALL"
    ELSE IF ps >= 2 /\ ps > cs THEN "BUY PUT"
    ELSE "NEUTRAL"

\* lines 161-166
Decide(cs, ps) ==
    IF cs >= 2 /\ cs > ps THEN "BUY CALL"
    ELSE IF ps >= 2 /\ ps > cs THEN "BUY PUT"
    ELSE "NEUTRAL"

Signals == {"BUY CALL", "BUY PUT", "NEUTRAL"}

\* lines 168-176, without the timestamp
Compose(s, c, v, z, o) ==
    [signal |-> s, candle |-> c, volume_trend |-> v, zone |-> z, option_chain |-> o]

-----------------------------------------------------------------------------
(* The loop and the decision cycle. *)

Exc(cls, origin) == [cls |-> cls, origin |-> origin]

LoopCatches_ValueErrorOnly(cls) == cls = "ValueError"

\* except Exception, line 186
LoopCatches(cls) == cls \in ExceptionClasses

SendCatches_all(cls) == cls \in ExceptionClasses

\* send_telegram_message has no try block
SendCatches(cls) == FALSE

Insufficient_lt2(n) == n = 0 \/ n < MinBars - 1

\* df.empty or len(df) < 3, line 24
Insufficient(n) == n = 0 \/ n < MinBars

\* the handler falls through to time.sleep(300), lines 187-188
AfterHandler == "sleep"

ClearLocals ==
    /\ df' = NoRec /\ candle' = None /\ sr_zone' = None /\ option_bias' = None
    /\ vol_trend' = None /\ call_score' = NoInt /\ put_score' = NoInt
    /\ signal' = None /\ msg' = NoRec

\* An exception leaves decision_engine: its frame is gone, and the loop's
\* except clause takes it if it matches.
Propagate(cls, origin) ==
    /\ raised' = Exc(cls, origin)
    /\ pc' = IF LoopCatches(cls) THEN "except" ELSE "terminated"
    /\ ClearLocals

Init ==
    /\ pc = "start"
    /\ df = NoRec /\ candle = None /\ sr_zone = None /\ option_bias = None
    /\ vol_trend = None /\ call_score = NoInt /\ put_score = NoInt
    /\ signal = None /\ msg = NoRec
    /\ raised = NoRec /\ log = << >> /\ outbox = << >> /\ ran = << >>
    /\ fetched = NoInt /\ chain_error = None /\ posted = None /\ timer = 0
    /\ helper_trend = None

\* get_live_data, lines 21-26 (called at line 116): yf.download raises
FetchRaises ==
    /\ pc = "start"
    /\ ran' = Append(ran, "get_live_data")
    /\ Propagate("ConnectionError", "get_live_data")
    /\ UNCHANGED <<log, outbox, fetched, chain_error, posted, timer, helper_trend>>

\* get_live_data: the provider returns n rows, too few
FetchShort ==
    /\ pc = "start"
    /\ \E n \in 0..MaxLen :
         /\ Insufficient(n)
         /\ fetched' = n
    /\ ran' = Append(ran, "get_live_data")
    /\ Propagate("ValueError", "get_live_data")
    /\ UNCHANGED <<log, outbox, chain_error, posted, timer, helper_trend>>

\* get_live_data: the provider returns n rows, enough of them
FetchOk ==
    /\ pc = "start"
    /\ \E f \in FramesOver(LoopPrices) :
         /\ ~Insufficient(f.len)
         /\ fetched' = f.len
         /\ df' = f
    /\ ran' = Append(ran, "get_live_data")
    /\ pc' = "indicators"
    /\ UNCHANGED <<candle, sr_zone, option_bias, vol_trend, call_score, put_score,
                   signal, msg, raised, log, outbox, chain_error, posted, timer,
                   helper_trend>>

\* calculate_indicators and the extraction of the raw values, lines 117-128
CalcIndicators ==
    /\ pc = "indicators"
    /\ ran' = Append(ran, "calculate_indicators")
    /\ \/ /\ df' = [df EXCEPT !.indicators = TRUE]
          /\ pc' = "detect_candle"
          /\ UNCHANGED <<candle, sr_zone, option_bias, vol_trend, call_score,
                         put_score, signal, msg, raised>>
       \/ Propagate("KeyError", "calculate_indicators")
    /\ UNCHANGED <<log, outbox, fetched, chain_error, posted, timer, helper_trend>>

\* candle = detect_candle(df), line 131
DetectCandle ==
    /\ pc = "detect_candle"
    /\ ran' = Append(ran, "detect_candle")
    /\ \/ /\ candle' = detect_candle(df)
          /\ pc' = "check_sr"
          /\ UNCHANGED <<df, sr_zone, option_bias, vol_trend, call_score,
                         put_score, signal, msg, raised>>
       \/ Propagate("ValueError", "detect_candle")
    /\ UNCHANGED <<log, outbox, fetched, chain_error, posted, timer, helper_trend>>

\* sr_zone = check_support_resistance(df), line 132
CheckSR ==
    /\ pc = "check_sr"
    /\ ran' = Append(ran, "check_support_resistance")
    /\ sr_zone' = check_support_resistance(df)
    /\ pc' = "option"
    /\ UNCHANGED <<df, candle, option_bias, vol_trend, call_score, put_score,
                   signal, msg, raised, log, outbox, fetched, chain_error, posted,
                   timer, helper_trend>>

\* option_bias = get_option_chain_bias(), line 133
OptionBias ==
    /\ pc = "option"
    /\ ran' = Append(ran, "get_option_chain_bias")
    /\ \E o \in BiasOutcomes :
         /\ chain_error' = o.tried
         /\ IF o.raises = None
            THEN /\ option_bias' = o.label
                 /\ log' = IF o.tried # None
                            THEN Append(log, [event |-> "option_chain_failed"]) ELSE log
                 /\ pc' = "score"
                 /\ UNCHANGED <<df, candle, sr_zone, vol_trend, call_score, put_score,
                                signal, msg, raised>>
            ELSE /\ Propagate(o.raises, "get_option_chain_bias")
                 /\ log' = log
    /\ UNCHANGED <<outbox, fetched, posted, timer, helper_trend>>

\* lines 135-178: volume trend, scores, signal, msg, print(msg)
Score ==
    /\ pc = "score"
    /\ ran' = Append(ran, "score")
    /\ LET v == inline_volume_trend(df)
           cs == ScoreCall(v, candle, sr_zone, option_bias)
           ps == ScorePut(v, candle, sr_zone, option_bias)
           s == Decide(cs, ps)
           m == Compose(s, candle, v, sr_zone, option_bias)
       IN  /\ vol_trend' = v
           /\ call_score' = cs
           /\ put_score' = ps
           /\ signal' = s
           /\ msg' = m
           /\ log' = Append(log, [event |-> "report", msg |-> m])
    /\ pc' = "send"
    /\ UNCHANGED <<df, candle, sr_zone, option_bias, raised, outbox, fetched,
                   chain_error, posted, timer, helper_trend>>

\* as Send, with the post tried a second time after a network error
Send_retry ==
    /\ pc = "send"
    /\ ran' = Append(ran, "send_telegram_message")
    /\ \E post \in {"ok", "http_error", "network_error"} :
         /\ posted' = post
         /\ outbox' = IF post = "network_error" THEN outbox \o << msg, msg >>
                                                ELSE Append(outbox, msg)
         /\ IF post = "network_error" /\ ~SendCatches("ConnectionError")
            THEN /\ Propagate("ConnectionError", "send_telegram_message")
                 /\ timer' = timer
            ELSE /\ ClearLocals
                 /\ pc' = "sleep"
                 /\ timer' = SleepSeconds
                 /\ raised' = raised
    /\ UNCHANGED <<log, fetched, chain_error, helper_trend>>

\* send_telegram_message(msg), lines 15-18 and 179; decision_engine returns
Send ==
    /\ pc = "send"
    /\ ran' = Append(ran, "send_telegram_message")
    /\ outbox' = Append(outbox, msg)
    /\ \E post \in {"ok", "http_error", "network_error"} :
         /\ posted' = post
         /\ IF post = "network_error" /\ ~SendCatches("ConnectionError")
            THEN /\ Propagate("ConnectionError", "send_telegram_message")
                 /\ timer' = timer
            ELSE /\ ClearLocals
                 /\ pc' = "sleep"
                 /\ timer' = SleepSeconds
                 /\ raised' = raised
    /\ UNCHANGED <<log, fetched, chain_error, helper_trend>>

\* except Exception as e: print(e), lines 186-187
Handle ==
    /\ pc = "except"
    /\ log' = Append(log, [event |-> "error", exc |-> raised])
    /\ raised' = NoRec
    /\ pc' = AfterHandler
    /\ timer' = IF AfterHandler = "sleep" THEN SleepSeconds ELSE timer
    /\ UNCHANGED <<locals, outbox, ran, fetched, chain_error, posted, helper_trend>>

\* time.sleep(300), line 188, and the next iteration of while True
Sleep ==
    /\ pc = "sleep"
    /\ timer' = 0
    /\ pc' = "start"
    /\ log' = << >> /\ outbox' = << >> /\ ran' = << >> /\ fetched' = NoInt
    /\ chain_error' = None /\ posted' = None
    /\ UNCHANGED <<locals, raised, helper_trend>>

Next ==
    \/ FetchRaises \/ FetchShort \/ FetchOk
    \/ CalcIndicators \/ DetectCandle \/ CheckSR \/ OptionBias
    \/ Score \/ Send \/ Handle \/ Sleep

Spec == Init /\ [][Next]_vars

-----------------------------------------------------------------------------
(* The detectors as pure functions of the last two bars: every pair of     *)
(* bars over Prices, each detector applied once.                           *)

InitDetect ==
    /\ pc = "pure_candle"
    /\ df \in { Frame(MinBars, L, Pv) : L \in BarsOver(Prices), Pv \in BarsOver(Prices) }
    /\ candle = None /\ sr_zone = None /\ option_bias = None
    /\ vol_trend = None /\ call_score = NoInt /\ put_score = NoInt
    /\ signal = None /\ msg = NoRec
    /\ raised = NoRec /\ log = << >> /\ outbox = << >> /\ ran = << >>
    /\ fetched = NoInt /\ chain_error = None /\ posted = None /\ timer = 0
    /\ helper_trend = None

ApplyDetectCandle ==
    /\ pc = "pure_candle"
    /\ candle' = detect_candle(df)
    /\ pc' = "pure_zone"
    /\ UNCHANGED <<df, sr_zone, option_bias, vol_trend, call_score, put_score, signal,
                   msg, raised, log, outbox, ran, fetched, chain_error, posted, timer,
                   helper_trend>>

ApplyCheckSR ==
    /\ pc = "pure_zone"
    /\ sr_zone' = check_support_resistance(df)
    /\ pc' = "pure_inline"
    /\ UNCHANGED <<df, candle, option_bias, vol_trend, call_score, put_score, signal,
                   msg, raised, log, outbox, ran, fetched, chain_error, posted, timer,
                   helper_trend>>

ApplyInlineTrend ==
    /\ pc = "pure_inline"
    /\ vol_trend' = inline_volume_trend(df)
    /\ pc' = "pure_helper"
    /\ UNCHANGED <<df, candle, sr_zone, option_bias, call_score, put_score, signal,
                   msg, raised, log, outbox, ran, fetched, chain_error, posted, timer,
                   helper_trend>>

ApplyHelperTrend ==
    /\ pc = "pure_helper"
    /\ helper_trend' = interpret_volume_trend(df)
    /\ pc' = "pure_done"
    /\ UNCHANGED <<df, candle, sr_zone, option_bias, vol_trend, call_score, put_score,
                   signal, msg, raised, log, outbox, ran, fetched, chain_error, posted,
                   timer>>

NextDetect == ApplyDetectCandle \/ ApplyCheckSR \/ ApplyInlineTrend \/ ApplyHelperTrend

SpecDetect == InitDetect /\ [][NextDetect]_vars

-----------------------------------------------------------------------------
(* The scoring and the decision rule as pure functions: every combination  *)
(* of four labels is scored and decided, and every pair of scores in       *)
(* 0..MaxScore is decided.                                                 *)

InitScore ==
    /\ \/ /\ pc = "pure_labels"
          /\ vol_trend \in VolLabels /\ candle \in CandleLabels
          /\ sr_zone \in ZoneLabels /\ option_bias \in BiasLabels
          /\ call_score = NoInt /\ put_score = NoInt
       \/ /\ pc = "pure_scores"
          /\ vol_trend = None /\ candle = None /\ sr_zone = None /\ option_bias = None
          /\ call_score \in 0..MaxScore /\ put_score \in 0..MaxScore
    /\ df = NoRec /\ signal = None /\ msg = NoRec
    /\ raised = NoRec /\ log = << >> /\ outbox = << >> /\ ran = << >>
    /\ fetched = NoInt /\ chain_error = None /\ posted = None /\ timer = 0
    /\ helper_trend = None

ApplyScore ==
    /\ pc = "pure_labels"
    /\ call_score' = ScoreCall(vol_trend, candle, sr_zone, option_bias)
    /\ put_score' = ScorePut(vol_trend, candle, sr_zone, option_bias)
    /\ pc' = "pure_scores"
    /\ UNCHANGED <<df, candle, sr_zone, option_bias, vol_trend, signal, msg, raised,
                   log, outbox, ran, fetched, chain_error, posted, timer, helper_trend>>

ApplyDecide ==
    /\ pc = "pure_scores"
    /\ signal' = Decide(call_score, put_score)
    /\ pc' = "pure_decided"
    /\ UNCHANGED <<df, candle, sr_zone, option_bias, vol_trend, call_score, put_score,
                   msg, raised, log, outbox, ran, fetched, chain_error, posted, timer,
                   helper_trend>>

NextScore == ApplyScore \/ ApplyDecide

SpecScore == InitScore /\ [][NextScore]_vars

-----------------------------------------------------------------------------
(* Properties. *)

\* The error taxonomy: the kind of an exception, by where it was raised.
ErrorKind(e) ==
    IF e.origin = "get_live_data" /\ e.cls = "ValueError" THEN "InsufficientData"
    ELSE IF e.origin = "get_option_chain_bias" THEN "ExternalServiceFailure"
    ELSE IF e.origin = "send_telegram_message" THEN "DeliveryFailure"
    ELSE "UnexpectedComputationError"

CallLabels == {"Strong Uptrend", "Bullish Engulfing", "Near Support", "CALL Bias"}
PutLabels == {"Strong Downtrend", "Bearish Engulfing", "Near Resistance", "PUT Bias"}

\* The detectors among vol_trend, candle, sr_zone, option_bias whose label is in S.
Awarding(S, v, c, z, o) ==
    { k \in {"volume", "candle", "zone", "option"} :
        \/ k = "volume" /\ v \in S
        \/ k = "candle" /\ c \in S
        \/ k = "zone" /\ z \in S
        \/ k = "option" /\ o \in S }

ErrorsLogged == { i \in DOMAIN log : log[i].event = "error" }

AllSteps ==
    << "get_live_data", "calculate_indicators", "detect_candle",
       "check_support_resistance", "get_option_chain_bias", "score",
       "send_telegram_message" >>

\* C1: the decision rule yields exactly one of the three signals for every
\* pair of scores in 0..MaxScore: BUY CALL exactly when call_score >= 2 and
\* call_score > put_score, BUY PUT exactly when put_score >= 2 and
\* put_score > call_score, NEUTRAL otherwise, and so on every tie.
C1_DecisionRule ==
    pc = "pure_decided" =>
        /\ signal \in Signals
        /\ (signal = "BUY CALL") <=> (call_score >= 2 /\ call_score > put_score)
        /\ (signal = "BUY PUT") <=> (put_score >= 2 /\ put_score > call_score)
        /\ (call_score = put_score) => (signal = "NEUTRAL")
        /\ (call_score < 2 /\ put_score < 2) => (signal = "NEUTRAL")

C1_Witness ==
    pc = "pure_decided" /\ call_score = 2 /\ put_score = 2 /\ signal = "NEUTRAL"

\* C6: for every combination of four labels each detector awards at most one
\* point, to one side only: call_score counts the detectors whose label is
\* one of the four call labels, put_score those whose label is one of the
\* four put labels; both lie in 0..4 and their sum is at most 4.
C6_ScoreAttribution ==
    (pc \in {"pure_scores", "pure_decided"} /\ candle # None) =>
        LET calls == Awarding(CallLabels, vol_trend, candle, sr_zone, option_bias)
            puts == Awarding(PutLabels, vol_trend, candle, sr_zone, option_bias)
        IN  /\ call_score = Cardinality(calls)
            /\ put_score = Cardinality(puts)
            /\ calls \cap puts = {}
            /\ call_score \in 0..4 /\ put_score \in 0..4
            /\ call_score + put_score <= 4

C6_Witness ==
    /\ pc = "pure_scores" /\ call_score = 2 /\ put_score = 2
    /\ vol_trend = "Strong Uptrend" /\ candle = "Bearish Engulfing"

\* C8: detect_candle returns exactly one of its four labels for every pair of
\* bars; the two engulfing conditions never hold together, and an engulfing
\* pattern is reported even when the doji condition holds too.
C8_CandleTotal ==
    candle # None =>
        LET L == df.latest  P == df.prev IN
        /\ candle \in CandleLabels
        /\ ~(BullishCond(L, P) /\ BearishCond(L, P))
        /\ BullishCond(L, P) => candle = "Bullish Engulfing"
        /\ BearishCond(L, P) => candle = "Bearish Engulfing"
        /\ (~BullishCond(L, P) /\ ~BearishCond(L, P)) =>
               candle = (IF DojiCond(L) THEN "Doji" ELSE "No Pattern")

C8_Witness ==
    /\ pc = "pure_zone" /\ candle = "Bullish Engulfing" /\ DojiCond(df.latest)

\* C9: check_support_resistance returns Near Support whenever the support
\* condition holds, also when the resistance condition holds too; Near
\* Resistance only when the support condition fails and the resistance
\* condition holds; Middle Zone otherwise.  A pair of bars that satisfies the
\* support condition gets no put point from the zone detector.
C9_SupportFirst ==
    sr_zone # None =>
        /\ SupportCond(df) => sr_zone = "Near Support"
        /\ (sr_zone = "Near Resistance") <=> (~SupportCond(df) /\ ResistanceCond(df))
        /\ (~SupportCond(df) /\ ~ResistanceCond(df)) => sr_zone = "Middle Zone"
        /\ SupportCond(df) =>
               /\ ScorePut("Neutral", "No Pattern", sr_zone, "Neutral") = 0
               /\ ScoreCall("Neutral", "No Pattern", sr_zone, "Neutral") = 1

C9_Witness ==
    /\ pc = "pure_inline" /\ sr_zone = "Near Support"
    /\ SupportCond(df) /\ ResistanceCond(df)

\* C10: the volume trend computed inline in decision_engine equals the label
\* of interpret_volume_trend for every pair of bars, and both follow the
\* table: close and volume higher, Strong Uptrend; close higher and volume
\* lower, Weak Uptrend; close lower and volume higher, Strong Downtrend;
\* close and volume lower, Weak Downtrend; a tie in close or volume, Neutral.
C10_TrendAgrees ==
    pc = "pure_done" =>
        LET L == df.latest  P == df.prev
            table ==
                CASE L.Close > P.Close /\ L.Volume > P.Volume -> "Strong Uptrend"
                  [] L.Close > P.Close /\ L.Volume < P.Volume -> "Weak Uptrend"
                  [] L.Close < P.Close /\ L.Volume > P.Volume -> "Strong Downtrend"
                  [] L.Close < P.Close /\ L.Volume < P.Volume -> "Weak Downtrend"
                  [] L.Close = P.Close \/ L.Volume = P.Volume -> "Neutral"
        IN  /\ vol_trend = helper_trend
            /\ vol_trend = table
            /\ vol_trend \in VolLabels

C10_Witness ==
    /\ pc = "pure_done" /\ vol_trend = "Neutral" /\ helper_trend = "Neutral"
    /\ df.latest.Close > df.prev.Close /\ df.latest.Volume = df.prev.Volume

\* C2: an exception out of a decision cycle is caught by the loop and logged;
\* the loop never terminates; the handler is followed by the 300-second
\* sleep, as is a cycle that returns; and a cycle starts only out of that
\* sleep, so cycles are strictly sequential.
C2_LoopIsolated ==
    [][ /\ pc' # "terminated"
        /\ (raised = NoRec /\ raised' # NoRec) => pc' = "except"
        /\ pc = "except" =>
               /\ pc' = "sleep"
               /\ log' = Append(log, [event |-> "error", exc |-> raised])
        /\ (pc # "sleep" /\ pc' = "sleep") =>
               /\ pc \in {"send", "except"}
               /\ timer' = SleepSeconds
        /\ pc = "send" => pc' \in {"sleep", "except"}
        /\ pc = "sleep" => (pc' = "start" /\ timer = SleepSeconds)
        /\ pc' = "start" => pc = "sleep"
      ]_vars

C2_Witness ==
    /\ pc = "sleep" /\ timer = SleepSeconds
    /\ \E i \in ErrorsLogged : log[i].exc.origin = "detect_candle"

\* C3: when the provider returns fewer than 3 rows, get_live_data raises its
\* ValueError (InsufficientData), the loop catches it, and no later step of
\* that cycle runs: no indicators, no detector, no option-chain fetch, no
\* scoring, no delivery.
C3_InsufficientData ==
    (fetched # NoInt /\ fetched < 3) =>
        /\ pc \in {"except", "sleep"}
        /\ ran = << "get_live_data" >>
        /\ outbox = << >> /\ posted = None /\ chain_error = None
        /\ df = NoRec /\ candle = None /\ sr_zone = None /\ option_bias = None
        /\ vol_trend = None /\ signal = None /\ msg = NoRec
        /\ pc = "except" =>
               /\ raised = Exc("ValueError", "get_live_data")
               /\ ErrorKind(raised) = "InsufficientData"
        /\ pc = "sleep" =>
               log = << [event |-> "error", exc |-> Exc("ValueError", "get_live_data")] >>

C3_Witness ==
    /\ fetched = 2 /\ pc = "sleep" /\ ran = << "get_live_data" >> /\ Len(log) = 1

\* C4: when the try block of get_option_chain_bias raises (network error,
\* malformed JSON, missing keys, an empty call or put side), the function
\* returns Neutral and the exception does not leave it; the cycle goes on to
\* score, with no point from the option bias, and hands one report to the
\* messaging endpoint.
C4_ChainFailsSoft ==
    chain_error # None =>
        /\ pc \in {"score", "send", "sleep", "except"}
        /\ \E i \in DOMAIN log : log[i].event = "option_chain_failed"
        /\ pc \in {"score", "send"} => (option_bias = "Neutral" /\ raised = NoRec)
        /\ pc = "send" =>
               /\ signal \in Signals
               /\ msg.option_chain = "Neutral"
               /\ call_score = Cardinality(Awarding(CallLabels, vol_trend, candle, sr_zone, None))
               /\ put_score = Cardinality(Awarding(PutLabels, vol_trend, candle, sr_zone, None))
        /\ pc \in {"sleep", "except"} =>
               /\ ran = AllSteps
               /\ Len(outbox) = 1
               /\ outbox[1].option_chain = "Neutral"
               /\ outbox[1].signal \in Signals
        /\ pc = "except" => raised.origin # "get_option_chain_bias"
        /\ \A i \in ErrorsLogged : log[i].exc.origin # "get_option_chain_bias"

C4_Witness ==
    /\ chain_error = "JSONDecodeError" /\ pc = "sleep" /\ posted = "ok"
    /\ Len(outbox) = 1 /\ outbox[1].signal = "BUY CALL"
    /\ outbox[1].option_chain = "Neutral"

\* C5 as stated: only InsufficientData and UnexpectedComputationError reach
\* the loop's handler; ExternalServiceFailure and DeliveryFailure never do.
C5_OnlyTwoKindsReachLoop ==
    pc = "except" => ErrorKind(raised) \in {"InsufficientData", "UnexpectedComputationError"}

\* C5, amended: InsufficientData, UnexpectedComputationError and
\* DeliveryFailure reach the loop's handler; an exception out of requests.post
\* is not caught in send_telegram_message and always reaches the handler, which
\* logs it. Only ExternalServiceFailure is absorbed where it originates.
C5_DeliveryFailureReachesLoop ==
    /\ pc = "except" =>
           ErrorKind(raised) \in {"InsufficientData", "UnexpectedComputationError",
                                  "DeliveryFailure"}
    /\ \A i \in ErrorsLogged : ErrorKind(log[i].exc) # "ExternalServiceFailure"
    /\ posted = "network_error" =>
           \/ pc = "except" /\ raised = Exc("ConnectionError", "send_telegram_message")
           \/ /\ pc = "sleep"
              /\ log[Len(log)] =
                     [event |-> "error", exc |-> Exc("ConnectionError", "send_telegram_message")]

C5_Witness ==
    /\ pc = "except" /\ ErrorKind(raised) = "DeliveryFailure"
    /\ posted = "network_error" /\ Len(outbox) = 1

\* C7: a cycle hands at most one report to the messaging endpoint, and only
\* after the signal and the four labels of that cycle are computed; the report
\* carries exactly those; a cycle that returns without error has handed over
\* exactly one, and a cycle that failed before delivery none.
C7_OneReportPerCycle ==
    /\ [](/\ Len(outbox) <= 1
          /\ pc = "send" =>
                 /\ outbox = << >>
                 /\ candle = detect_candle(df)
                 /\ sr_zone = check_support_resistance(df)
                 /\ vol_trend = inline_volume_trend(df)
                 /\ option_bias \in BiasLabels
                 /\ signal = Decide(call_score, put_score)
                 /\ msg = [signal |-> signal, candle |-> candle,
                           volume_trend |-> vol_trend, zone |-> sr_zone,
                           option_chain |-> option_bias]
          /\ outbox # << >> => ran = AllSteps
          /\ (pc = "sleep" /\ ErrorsLogged = {}) => Len(outbox) = 1
          /\ (pc = "except" /\ raised.origin # "send_telegram_message") => outbox = << >>
          /\ \A i \in ErrorsLogged :
                 log[i].exc.origin # "send_telegram_message" => outbox = << >>)
    /\ [][pc = "send" => outbox' = << msg >>]_vars

C7_Witness ==
    /\ pc = "sleep" /\ ErrorsLogged = {} /\ Len(outbox) = 1
    /\ outbox[1].signal = "BUY PUT" /\ outbox[1].candle = "Bearish Engulfing"

====
